---- MODULE Spec2Model ----
\* Table Extraction & Rendering Engine of doc2mmd.py (tablefix and the
\* functions it calls).  Text is modelled as sequences of one-character
\* strings; every operator below computes what the Python code computes.
EXTENDS Integers, Sequences, FiniteSets, TLC

VARIABLES
    \* tablefix (the Pipeline Driver)
    pc,               \* "run" | "done" | "raised": where tablefix is
    wb,               \* "none" | "open" | "closed": the xlsxwriter Workbook
    wb_created,       \* number of Workbooks created by init_xls_wb
    wb_closed,        \* number of wb.close() calls
    used_sheet_names, \* wb.used_sheet_names
    sheets,           \* worksheets of the Workbook, in creation order
    chosen,           \* names html2table passed to wb.add_worksheet(caption)
    output_text,      \* the segments appended to output_text, in order
    toks,             \* the tokens consumed so far, in order
    \* util.Tokenizer
    md_text, lex_pos, lex_tokens,
    \* markdown_table run on its own
    cls_table, cls_result,
    \* write_cells, one cell at a time
    wc_table, wc_row, wc_col, wc, wc_pc,
    \* fit_columns, one loop iteration at a time
    fit_in, colwidth, colsum, fit_iter, fit_prev, set_column, fit_pc

vars == <<pc, wb, wb_created, wb_closed, used_sheet_names, sheets, chosen,
          output_text, toks, md_text, lex_pos, lex_tokens, cls_table,
          cls_result, wc_table, wc_row, wc_col, wc, wc_pc, fit_in, colwidth,
          colsum, fit_iter, fit_prev, set_column, fit_pc>>

driverVars == <<pc, wb, wb_created, wb_closed, used_sheet_names, sheets,
                chosen, output_text, toks>>
lexVars == <<md_text, lex_pos, lex_tokens>>
clsVars == <<cls_table, cls_result>>
wcVars == <<wc_table, wc_row, wc_col, wc, wc_pc>>
fitVars == <<fit_in, colwidth, colsum, fit_iter, fit_prev, set_column, fit_pc>>

-----------------------------------------------------------------------------
\* Strings

Rep(c, n) == [i \in 1..n |-> c]

Take(s, n) == SubSeq(s, 1, IF Len(s) < n THEN Len(s) ELSE n)

RECURSIVE Concat(_)
Concat(ss) == IF ss = <<>> THEN <<>> ELSE Head(ss) \o Concat(Tail(ss))

RECURSIVE Filter(_, _)
Filter(s, keep) ==
    IF s = <<>> THEN <<>>
    ELSE (IF Head(s) \in keep THEN <<Head(s)>> ELSE <<>>) \o Filter(Tail(s), keep)

Whitespace == {" ", "\n", "\t"}

RECURSIVE LStrip(_)
LStrip(s) == IF s # <<>> /\ Head(s) \in Whitespace THEN LStrip(Tail(s)) ELSE s

RECURSIVE RStrip(_)
RStrip(s) ==
    IF s # <<>> /\ s[Len(s)] \in Whitespace THEN RStrip(SubSeq(s, 1, Len(s) - 1))
    ELSE s

\* str.strip()
Strip(s) == RStrip(LStrip(s))

UpperCase == [A |-> "a", R |-> "r", S |-> "s", X |-> "x"]

\* str.lower()
Lower(s) ==
    [i \in 1..Len(s) |-> IF s[i] \in DOMAIN UpperCase THEN UpperCase[s[i]] ELSE s[i]]

DigitChar == <<"0", "1", "2", "3", "4", "5", "6", "7", "8", "9">>

\* "%d" % n, for n >= 0
RECURSIVE Decimal(_)
Decimal(n) ==
    IF n < 10 THEN <<DigitChar[n + 1]>>
    ELSE Decimal(n \div 10) \o <<DigitChar[(n % 10) + 1]>>

\* the characters the regular expression class [\w ] matches
WordOrSpace ==
    {"A", "R", "S", "X", "a", "b", "c", "e", "h", "l", "r", "s", "t", "u", "x",
     "0", "1", "2", "3", "4", "5", "6", "7", "8", "9", "_", " "}

-----------------------------------------------------------------------------
\* Sheet Namer (html2table, lines 403-414) and Workbook.add_worksheet

SheetNameMax == 31
CollisionStem == 28

\* re.sub(r"[^\w ]", "", s.caption.text).strip()[:31].strip()
CaptionName(text) ==
    Strip(Take(Strip(Filter(text, WordOrSpace)), SheetNameMax))

\* while caption.lower() in wb.used_sheet_names: ...
RECURSIVE NamerLoop(_, _, _, _)
NamerLoop(caption, orig_caption, n, used) ==
    IF Lower(caption) \in used
    THEN NamerLoop(Take(orig_caption, CollisionStem) \o <<"_">> \o Decimal(n),
                   orig_caption, n + 1, used)
    ELSE caption

SheetNamer(text, used) == NamerLoop(CaptionName(text), CaptionName(text), 1, used)

LowerSheetNames(shs) == {Lower(shs[i].name) : i \in 1..Len(shs)}

\* xlsxwriter names a worksheet added without a name "Sheet<k>", k counting
\* every worksheet of the workbook
DefaultSheetName(shs) == <<"S", "h", "e", "e", "t">> \o Decimal(Len(shs) + 1)

\* the name wb.add_worksheet(name) gives the worksheet
WorksheetName(shs, name) == IF name = <<>> THEN DefaultSheetName(shs) ELSE name

\* wb.add_worksheet raises for a name longer than 31 characters and for a
\* name that equals, ignoring case, the name of a worksheet of the workbook
AddWorksheetRaises(shs, name) ==
    \/ Len(WorksheetName(shs, name)) > SheetNameMax
    \/ Lower(WorksheetName(shs, name)) \in LowerSheetNames(shs)

-----------------------------------------------------------------------------
\* Parsed tables.  A table is [has_caption, caption, rows]; a row is
\* [td, th], the <td> and the <th> cells found in the <tr>; a cell is
\* [text, colspan, rowspan] where an attribute is <<>> when absent and
\* <<v>> when present with the string value v.

Attr(v) == <<v>>
NoAttr == <<>>

IntOf == ("-1" :> -1) @@ ("0" :> 0) @@ ("1" :> 1) @@ ("2" :> 2) @@ ("3" :> 3)

\* int(v) raises ValueError
IntRaises(v) == v \notin DOMAIN IntOf

\* cols = row.findAll("td"); if len(cols) == 0: cols = row.findAll("th")
RowCols(row) == IF Len(row.td) # 0 THEN row.td ELSE row.th
RowIsHeader(row) == Len(row.td) = 0

HasNewline(s) == \E i \in 1..Len(s) : s[i] = "\n"

-----------------------------------------------------------------------------
\* markdown_table (lines 553-602)

RowLimit == 100

\* cell.replace("<", "&lt;")
RECURSIVE EscapeLt(_)
EscapeLt(s) ==
    IF s = <<>> THEN <<>>
    ELSE IF Len(s) = 1 THEN (IF s[1] = "<" THEN <<"&", "l", "t", ";">> ELSE s)
    ELSE EscapeLt(SubSeq(s, 1, Len(s) \div 2))
           \o EscapeLt(SubSeq(s, Len(s) \div 2 + 1, Len(s)))

Nbsp == <<"&", "n", "b", "s", "p", ";">>

\* the text appended to the row for one cell (lines 573-575, 587-589)
MdCell(data) ==
    LET cell == EscapeLt(Strip(data.text))
    IN  IF cell = <<>> THEN Nbsp ELSE cell

\* what the loop body does for one cell: "ok", "ValueError" (int() raised)
\* or "Excel" (raise TableBetterForExcel)
MdCellOutcome(data) ==
    IF data.colspan # NoAttr /\ IntRaises(data.colspan[1]) THEN "ValueError"
    ELSE IF data.rowspan # NoAttr /\ IntRaises(data.rowspan[1]) THEN "ValueError"
    ELSE LET colspan == IF data.colspan # NoAttr THEN IntOf[data.colspan[1]] ELSE 1
             rowspan == IF data.rowspan # NoAttr THEN IntOf[data.rowspan[1]] ELSE 1
         IN  IF rowspan + colspan > 2 THEN "Excel"
             ELSE IF HasNewline(EscapeLt(Strip(data.text))) THEN "Excel"
             ELSE "ok"

RECURSIVE MdCellsOutcome(_, _)
MdCellsOutcome(cols, i) ==
    IF i > Len(cols) THEN "ok"
    ELSE IF MdCellOutcome(cols[i]) # "ok" THEN MdCellOutcome(cols[i])
    ELSE MdCellsOutcome(cols, i + 1)

MdRow(row) == [i \in 1..Len(RowCols(row)) |-> MdCell(RowCols(row)[i])]

\* one <tr>: the cells in order, then the check of the row size (line 596)
MdRowOutcome(row) ==
    IF Len(RowCols(row)) = 0 THEN "ok"
    ELSE IF MdCellsOutcome(RowCols(row), 1) # "ok" THEN MdCellsOutcome(RowCols(row), 1)
    ELSE IF Len(Concat(MdRow(row))) > RowLimit THEN "Excel"
    ELSE "ok"

RECURSIVE MdRowsOutcome(_, _)
MdRowsOutcome(rows, i) ==
    IF i > Len(rows) THEN "ok"
    ELSE IF MdRowOutcome(rows[i]) # "ok" THEN MdRowOutcome(rows[i])
    ELSE MdRowsOutcome(rows, i + 1)

\* header = row for a header row, table.append(row) for a body row
RECURSIVE MdHeader(_, _, _)
MdHeader(rows, i, header) ==
    IF i > Len(rows) THEN header
    ELSE MdHeader(rows, i + 1,
                  IF Len(RowCols(rows[i])) # 0 /\ RowIsHeader(rows[i])
                  THEN MdRow(rows[i]) ELSE header)

RECURSIVE MdBody(_, _)
MdBody(rows, i) ==
    IF i > Len(rows) THEN <<>>
    ELSE (IF Len(RowCols(rows[i])) # 0 /\ ~RowIsHeader(rows[i])
          THEN <<MdRow(rows[i])>> ELSE <<>>) \o MdBody(rows, i + 1)

\* markdown_table(s): [kind |-> "Inline", ...] is the returned text (the
\* arguments of tabulate and the caption line), "Excel" is
\* TableBetterForExcel raised, "ValueError" is int() raising
markdown_table(s) ==
    IF MdRowsOutcome(s.rows, 1) = "ok"
    THEN [kind |-> "Inline", header |-> MdHeader(s.rows, 1, <<>>),
          table |-> MdBody(s.rows, 1),
          caption |-> IF s.has_caption THEN Strip(s.caption) ELSE <<>>]
    ELSE [kind |-> MdRowsOutcome(s.rows, 1), header |-> <<>>, table |-> <<>>,
          caption |-> <<>>]

-----------------------------------------------------------------------------
\* Column widths are Python floats; they are modelled as exact fractions
\* <<n, d>> with d > 0, kept in lowest terms.

Gcd[a \in Nat, b \in Nat] == IF b = 0 THEN a ELSE Gcd[b, a % b]

\* The arithmetic is written as functions, which TLC applies to evaluated
\* arguments.
Frac[n \in Int, d \in Int] ==
    LET g == Gcd[IF n < 0 THEN -n ELSE n, d]
    IN  IF g = 0 THEN <<0, 1>> ELSE <<n \div g, d \div g>>

Fracs == Int \X Int
FracOfInt(n) == <<n, 1>>
FracGt[a \in Fracs, b \in Fracs] == a[1] * b[2] > b[1] * a[2]
FracGeq[a \in Fracs, b \in Fracs] == a[1] * b[2] >= b[1] * a[2]
FracAdd[a \in Fracs, b \in Fracs] == Frac[a[1] * b[2] + b[1] * a[2], a[2] * b[2]]
FracMul[a \in Fracs, b \in Fracs] == Frac[a[1] * b[1], a[2] * b[2]]
\* max(a, b) of Python: a unless b > a
FracMax[a \in Fracs, b \in Fracs] == IF FracGt[b, a] THEN b ELSE a

-----------------------------------------------------------------------------
\* write_cells (lines 468-550).  The state of the walk is
\* [x, y, skip_merged, colwidth, writes, merges, cells, raised]: writes are
\* the sheet.write calls and merges the sheet.merge_range calls, in call
\* order; cells are the <td>/<th> cells that reached line 515, in order, each
\* with the (x, y) it was placed at and the spans read for it.

\* re.sub(r"\n{2,}", "\n", cell_text)
RECURSIVE CollapseNewlines(_)
CollapseNewlines(s) ==
    IF Len(s) < 2 THEN s
    ELSE IF s[1] = "\n" /\ s[2] = "\n" THEN CollapseNewlines(Tail(s))
    ELSE <<Head(s)>> \o CollapseNewlines(Tail(s))

\* len(max(text.split("\n"), key=len))
RECURSIVE LongestLineFrom(_, _, _)
LongestLineFrom(s, cur, best) ==
    IF s = <<>> THEN (IF cur > best THEN cur ELSE best)
    ELSE IF Head(s) = "\n"
         THEN LongestLineFrom(Tail(s), 0, IF cur > best THEN cur ELSE best)
         ELSE LongestLineFrom(Tail(s), cur + 1, best)

LongestLine(s) == LongestLineFrom(s, 0, 0)

\* lines 504-510; the cell texts of the model hold no "*", so bold2style
\* returns ("", cell_text)
CellText(data) == CollapseNewlines(Strip(data.text))

WcInit ==
    [x |-> 0, y |-> 0, skip_merged |-> {}, colwidth |-> <<>>, writes |-> <<>>,
     merges |-> <<>>, cells |-> <<>>, raised |-> FALSE]

\* the loop of lines 490-491 left out
SkipMerged_Stay(x, y, skip_merged) == x

\* while (x, y) in skip_merged: x += 1
RECURSIVE SkipMerged(_, _, _)
SkipMerged(x, y, skip_merged) ==
    IF <<x, y>> \in skip_merged THEN SkipMerged(x + 1, y, skip_merged) ELSE x

\* colwidth.get(i, 0)
WidthGet(cw, i) == IF i \in DOMAIN cw THEN cw[i] ELSE FracOfInt(0)

\* the cells a merge range swallows (lines 525-529)
Swallowed(x, y, colspan, rowspan) ==
    {<<x + cs, y + rs>> : cs \in 0..(colspan - 1), rs \in 0..(rowspan - 1)}
        \ {<<x, y>>}

\* the merge test on the number of grid positions the cell spans
IsMerge_Product(colspan, rowspan) == colspan * rowspan > 2

\* the merge test of line 515
IsMerge(colspan, rowspan) == colspan + rowspan > 2

\* the cursor left where the cell was placed
NextX_Stay(x, colspan) == x

\* the advance of the cursor after a cell (line 546)
NextX(x, colspan) == x + 1

\* the body of "for data in cols" (lines 487-546) for one cell
WriteCell(st, data, header) ==
    LET x == SkipMerged(st.x, st.y, st.skip_merged)
        y == st.y
    IN  IF \/ (data.colspan # NoAttr /\ IntRaises(data.colspan[1]))
           \/ (data.rowspan # NoAttr /\ IntRaises(data.rowspan[1]))
        THEN [st EXCEPT !.x = x, !.raised = TRUE]
        ELSE
          LET colspan == IF data.colspan # NoAttr THEN IntOf[data.colspan[1]] ELSE 1
              rowspan == IF data.rowspan # NoAttr THEN IntOf[data.rowspan[1]] ELSE 1
              width == LongestLine(data.text)
              cell_text == CellText(data)
          IN  IF IsMerge(colspan, rowspan)
              THEN [st EXCEPT
                      !.x = NextX(x, colspan),
                      !.cells = Append(@, [x |-> x, y |-> y, colspan |-> colspan,
                                           rowspan |-> rowspan]),
                      !.merges = Append(@, [y1 |-> y, x1 |-> x,
                                            y2 |-> y + rowspan - 1,
                                            x2 |-> x + colspan - 1,
                                            text |-> cell_text, fmt |-> "merge"]),
                      !.skip_merged = @ \cup Swallowed(x, y, colspan, rowspan),
                      !.colwidth =
                          [i \in DOMAIN @ \cup (x..(x + colspan - 1)) |->
                              IF i \in x..(x + colspan - 1)
                              THEN FracMax[WidthGet(@, i), Frac[width, colspan]]
                              ELSE @[i]]]
              ELSE [st EXCEPT
                      !.x = NextX(x, colspan),
                      !.cells = Append(@, [x |-> x, y |-> y, colspan |-> colspan,
                                           rowspan |-> rowspan]),
                      !.colwidth =
                          [i \in DOMAIN @ \cup {x} |->
                              IF i = x
                              THEN FracMax[WidthGet(@, x),
                                           FracOfInt(LongestLine(cell_text))]
                              ELSE @[i]],
                      !.writes = Append(@, [y |-> y, x |-> x, text |-> cell_text,
                                            fmt |-> IF header THEN "header"
                                                    ELSE "cell"])]

RECURSIVE WriteRowCells(_, _, _, _)
WriteRowCells(st, cols, header, i) ==
    IF st.raised \/ i > Len(cols) THEN st
    ELSE WriteRowCells(WriteCell(st, cols[i], header), cols, header, i + 1)

\* the end of one <tr> (line 547)
EndRow(st) == [st EXCEPT !.y = @ + 1]

\* one pass of "for row in s.findAll('tr')"
WriteRow(st, row) ==
    IF Len(RowCols(row)) = 0 THEN st
    ELSE LET done == WriteRowCells([st EXCEPT !.x = 0], RowCols(row),
                                   RowIsHeader(row), 1)
         IN  IF done.raised THEN done ELSE EndRow(done)

RECURSIVE WriteRows(_, _, _)
WriteRows(st, rows, i) ==
    IF st.raised \/ i > Len(rows) THEN st
    ELSE WriteRows(WriteRow(st, rows[i]), rows, i + 1)

SetMax(S) == CHOOSE m \in S : \A k \in S : k <= m

\* num_cols = max(colwidth.keys()) + 1 raises ValueError on an empty dict
ReturnRaises(st) == DOMAIN st.colwidth = {}

\* return [colwidth.get(i, 0) for i in range(num_cols)]
WidthList(st) ==
    [i \in 1..(SetMax(DOMAIN st.colwidth) + 1) |-> WidthGet(st.colwidth, i - 1)]

\* write_cells(sheet, s, formats): the state after the walk
write_cells(s) == WriteRows(WcInit, s.rows, 1)

-----------------------------------------------------------------------------
\* fit_columns (lines 427-454)

WidthBudget == 190
ColsumStart == 9999

SevenTenths == <<7, 10>>
NineTenths == <<9, 10>>

\* lines 436-441
RECURSIVE MaxCol(_, _, _)
MaxCol(cw, i, maxcol) ==
    IF i > Len(cw) THEN maxcol
    ELSE MaxCol(cw, i + 1, IF FracGt[cw[i], maxcol] THEN cw[i] ELSE maxcol)

\* lines 442-445: one pass of the shrink step
Shrink(cw) ==
    LET threshold == FracMul[MaxCol(cw, 1, FracOfInt(0)), NineTenths]
    IN  [i \in 1..Len(cw) |->
            IF FracGeq[cw[i], threshold] THEN FracMul[cw[i], SevenTenths] ELSE cw[i]]

\* lines 447-449
RECURSIVE ColSum(_, _)
ColSum(cw, i) ==
    IF i > Len(cw) THEN FracOfInt(0) ELSE FracAdd[cw[i], ColSum(cw, i + 1)]

\* the limit of the docstring (200) in place of 190
LoopRuns_Docstring(cs) == FracGt[cs, FracOfInt(WidthBudget + 10)]

\* while colsum > 190
LoopRuns(cs) == FracGt[cs, FracOfInt(WidthBudget)]

RECURSIVE FitLoop(_, _)
FitLoop(cw, cs) ==
    IF LoopRuns(cs) THEN FitLoop(Shrink(cw), ColSum(Shrink(cw), 1)) ELSE cw

\* lines 451-454: sheet.set_column(i, i, colwidth[i] + 1)
Slack(cw) == [i \in 1..Len(cw) |-> FracAdd[cw[i], FracOfInt(1)]]

\* the column widths fit_columns sets on the sheet
fit_columns(cw) == Slack(FitLoop(cw, FracOfInt(ColsumStart)))

-----------------------------------------------------------------------------
\* html2table (lines 387-424)

NoRendering == [kind |-> "none", header |-> <<>>, table |-> <<>>, caption |-> <<>>]

NewSheet(shs, name, full_name) ==
    [name |-> WorksheetName(shs, name), full_name |-> full_name,
     writes |-> <<>>, merges |-> <<>>, columns |-> <<>>]

\* lines 420-424 on the worksheet just added: ret is "sheet" when the
\* worksheet is returned and "raise" when write_cells raised
FillSheet(s, sh) ==
    LET st == write_cells(s)
    IN  IF st.raised \/ ReturnRaises(st)
        THEN [ret |-> "raise",
              sheet |-> [sh EXCEPT !.writes = st.writes, !.merges = st.merges]]
        ELSE [ret |-> "sheet",
              sheet |-> [sh EXCEPT !.writes = st.writes, !.merges = st.merges,
                                   !.columns = fit_columns(WidthList(st))]]

\* html2table(html, wb, formats) on the parsed table s, with the workbook
\* holding used_sheet_names = used and the worksheets shs.  ret is "str"
\* (markdown returned), "sheet" (worksheet returned) or "raise".
html2table(s, used, shs, chsn) ==
    LET md == markdown_table(s)
        same == [ret |-> "raise", table |-> NoRendering, used |-> used,
                 sheets |-> shs, chosen |-> chsn]
    IN  IF md.kind = "Inline" THEN [same EXCEPT !.ret = "str", !.table = md]
        ELSE IF md.kind = "ValueError" THEN same
        ELSE IF s.has_caption
        THEN LET caption == SheetNamer(s.caption, used)
                 named == [same EXCEPT !.used = used \cup {Lower(caption)},
                                       !.chosen = Append(chsn, caption)]
             IN  IF AddWorksheetRaises(shs, caption) THEN named
                 ELSE LET f == FillSheet(s, NewSheet(shs, caption, Strip(s.caption)))
                      IN  [named EXCEPT !.ret = f.ret,
                                        !.sheets = Append(shs, f.sheet)]
        ELSE IF AddWorksheetRaises(shs, <<>>) THEN same
             ELSE LET f == FillSheet(s, NewSheet(shs, <<>>, DefaultSheetName(shs)))
                  IN  [same EXCEPT !.ret = f.ret, !.sheets = Append(shs, f.sheet)]

-----------------------------------------------------------------------------
\* tablefix (lines 320-380): the loop over the tokens

NoTable == [has_caption |-> FALSE, caption |-> <<>>, rows |-> <<>>]

TextSegment(value) ==
    [kind |-> "text", value |-> value, table |-> NoRendering, sheetname |-> <<>>,
     caption |-> <<>>]

\* lines 363-365
InlineSegment(md) ==
    [kind |-> "inline", value |-> <<>>, table |-> md, sheetname |-> <<>>,
     caption |-> <<>>]

\* the directive with the caption where the sheet name belongs
EmbedSegment_Caption(sheet) ==
    [kind |-> "embed", value |-> <<>>, table |-> NoRendering,
     sheetname |-> sheet.full_name, caption |-> sheet.full_name]

\* lines 368-374: the xls(...) directive
EmbedSegment(sheet) ==
    [kind |-> "embed", value |-> <<>>, table |-> NoRendering,
     sheetname |-> sheet.name, caption |-> sheet.full_name]

\* line 359: the test that decides whether init_xls_wb is called for a
\* table token
NeedsWorkbook(state) == state = "none"

DriverInit ==
    /\ pc = "run"
    /\ wb = "none"
    /\ wb_created = 0
    /\ wb_closed = 0
    /\ used_sheet_names = {}
    /\ sheets = <<>>
    /\ chosen = <<>>
    /\ output_text = <<>>
    /\ toks = <<>>

\* lines 358-374: one HTML_TABLE token whose markup parses to s
TableToken(s, limit) ==
    /\ pc = "run"
    /\ Len(toks) < limit
    /\ toks' = Append(toks, [typ |-> "HTML_TABLE", value |-> <<>>, table |-> s])
    /\ wb' = IF NeedsWorkbook(wb) THEN "open" ELSE wb
    /\ wb_created' = IF NeedsWorkbook(wb) THEN wb_created + 1 ELSE wb_created
    /\ \E r \in {html2table(s, used_sheet_names, sheets, chosen)} :
           /\ used_sheet_names' = r.used
           /\ sheets' = r.sheets
           /\ chosen' = r.chosen
           /\ pc' = IF r.ret = "raise" THEN "raised" ELSE "run"
           /\ output_text' =
                 IF r.ret = "str" THEN Append(output_text, InlineSegment(r.table))
                 ELSE IF r.ret = "sheet"
                 THEN Append(output_text, EmbedSegment(r.sheets[Len(r.sheets)]))
                 ELSE output_text
    /\ UNCHANGED wb_closed

\* lines 375-376: one TEXT token
TextToken(c, limit) ==
    /\ pc = "run"
    /\ Len(toks) < limit
    /\ toks' = Append(toks, [typ |-> "TEXT", value |-> <<c>>, table |-> NoTable])
    /\ output_text' = Append(output_text, TextSegment(<<c>>))
    /\ UNCHANGED <<pc, wb, wb_created, wb_closed, used_sheet_names, sheets, chosen>>

\* lines 378-380: the tokens are exhausted
Finish ==
    /\ pc = "run"
    /\ pc' = "done"
    /\ wb' = IF wb = "open" THEN "closed" ELSE wb
    /\ wb_closed' = IF wb = "open" THEN wb_closed + 1 ELSE wb_closed
    /\ UNCHANGED <<wb_created, used_sheet_names, sheets, chosen, output_text, toks>>

-----------------------------------------------------------------------------
\* The documents the driver is run on

MaxTokens == 3
NamerDepth == 101

Cell(text, colspan, rowspan) == [text |-> text, colspan |-> colspan, rowspan |-> rowspan]
Plain(text) == Cell(text, NoAttr, NoAttr)
BodyRow(cells) == [td |-> cells, th |-> <<>>]
HeadRow(cells) == [td |-> <<>>, th |-> cells]
Table(has_caption, caption, rows) ==
    [has_caption |-> has_caption, caption |-> caption, rows |-> rows]

SimpleRows == <<HeadRow(<<Plain(<<"a", "b">>), Plain(<<"c">>)>>),
                BodyRow(<<Plain(<<"a">>), Plain(<<>>)>>)>>
MergeRows == <<BodyRow(<<Cell(<<"a", "b">>, Attr("2"), NoAttr)>>),
               BodyRow(<<Plain(<<"a">>), Plain(<<"b">>)>>)>>
\* a colspan that is no integer, in the first cell
BadFirstRows == <<BodyRow(<<Cell(<<"a">>, Attr("x"), NoAttr), Plain(<<"b">>)>>)>>
\* a merged cell, then a rowspan that is no integer
BadLaterRows == <<BodyRow(<<Cell(<<"a">>, NoAttr, Attr("2")),
                            Cell(<<"b">>, NoAttr, Attr(""))>>)>>
\* a colspan of zero beside a rowspan of two
ZeroSpanRows == <<BodyRow(<<Cell(<<"a">>, Attr("0"), Attr("2")), Plain(<<"b">>)>>)>>

Results == <<"R", "e", "s", "u", "l", "t", "s">>
Sheet1 == <<"S", "h", "e", "e", "t", "1">>
Sheet2 == <<"S", "h", "e", "e", "t", "2">>
\* two captions that differ only after the 31st character
LongB == Rep("X", SheetNameMax) \o <<"b">>
LongC == Rep("X", SheetNameMax) \o <<"c">>

Captions == {Results, Lower(Results), Sheet1, Sheet2, <<"!", "!">>, LongB, LongC}

DocTables ==
    {Table(FALSE, <<>>, SimpleRows), Table(TRUE, Results, SimpleRows),
     Table(FALSE, <<>>, MergeRows), Table(FALSE, <<>>, BadFirstRows),
     Table(TRUE, Results, BadLaterRows), Table(FALSE, <<>>, ZeroSpanRows)}
    \cup {Table(TRUE, c, MergeRows) : c \in Captions}

DocChars == {"a", "\n"}

LexIdle == md_text = <<>> /\ lex_pos = 1 /\ lex_tokens = <<>>
ClsIdle == cls_table = NoTable /\ cls_result = NoRendering
WcIdle ==
    /\ wc_table = NoTable
    /\ wc_row = 1
    /\ wc_col = 1
    /\ wc = WcInit
    /\ wc_pc = "idle"
FitIdle ==
    /\ fit_in = <<>>
    /\ colwidth = <<>>
    /\ colsum = FracOfInt(0)
    /\ fit_iter = 0
    /\ fit_prev = <<>>
    /\ set_column = <<>>
    /\ fit_pc = "idle"

\* tablefix on every document of at most MaxTokens tokens
Init == DriverInit /\ LexIdle /\ ClsIdle /\ WcIdle /\ FitIdle

Next ==
    \/ \E s \in DocTables : TableToken(s, MaxTokens) /\ UNCHANGED <<lexVars, clsVars, wcVars, fitVars>>
    \/ \E c \in DocChars : TextToken(c, MaxTokens) /\ UNCHANGED <<lexVars, clsVars, wcVars, fitVars>>
    \/ Finish /\ UNCHANGED <<lexVars, clsVars, wcVars, fitVars>>

Spec == Init /\ [][Next]_vars

\* tablefix on the documents made of up to NamerDepth Complex tables that
\* all carry one caption
NamerCaptions == {LongB, Rep("X", CollisionStem), Results}

NamerInit ==
    /\ DriverInit /\ LexIdle /\ WcIdle /\ FitIdle
    /\ cls_table \in {Table(TRUE, c, MergeRows) : c \in NamerCaptions}
    /\ cls_result = NoRendering

NamerNext ==
    \/ TableToken(cls_table, NamerDepth) /\ UNCHANGED <<lexVars, clsVars, wcVars, fitVars>>
    \/ Finish /\ UNCHANGED <<lexVars, clsVars, wcVars, fitVars>>

SpecNamer == NamerInit /\ [][NamerNext]_vars

-----------------------------------------------------------------------------
\* The Lexer: util.Tokenizer with the token specification of tablefix
\* (lines 326-330).  The patterns are those of tablefix; the matching loop
\* is the one the specification describes (section 4.1): the patterns are
\* tried in order at the current position, "." matches every character,
\* and the next match starts where the last one ended.

MaxPieces == 4

OpenTag == <<"<", "t", "a", "b", "l", "e", ">">>
CloseTag == <<"<", "/", "t", "a", "b", "l", "e", ">">>

\* the characters "." matches
DotMatches(c) == TRUE

StartsAt(text, p, pat) ==
    /\ p + Len(pat) - 1 <= Len(text)
    /\ SubSeq(text, p, p + Len(pat) - 1) = pat

\* "<table>.*?</table>" matched at p: the index of the last character of
\* the shortest match, 0 when there is none
TableMatchEnd(text, p) ==
    LET closes == {q \in (p + Len(OpenTag))..Len(text) :
                      /\ StartsAt(text, q, CloseTag)
                      /\ \A k \in (p + Len(OpenTag))..(q - 1) : DotMatches(text[k])}
    IN  IF StartsAt(text, p, OpenTag) /\ closes # {}
        THEN (CHOOSE q \in closes : \A r \in closes : q <= r) + Len(CloseTag) - 1
        ELSE 0

\* a TEXT pattern that leaves "<" out, r"[^<]"
TextMatchEnd_NotLt(text, p) == IF text[p] # "<" THEN p ELSE 0

\* r"." matched at p
TextMatchEnd(text, p) == IF DotMatches(text[p]) THEN p ELSE 0

\* the token matched at p, HTML_TABLE tried first; typ "none" when no
\* pattern matches at p
MatchAt(text, p) ==
    IF TableMatchEnd(text, p) # 0
    THEN [typ |-> "HTML_TABLE", value |-> SubSeq(text, p, TableMatchEnd(text, p))]
    ELSE IF TextMatchEnd(text, p) # 0
    THEN [typ |-> "TEXT", value |-> <<text[p]>>]
    ELSE [typ |-> "none", value |-> <<>>]

\* the first position at or after p where a pattern matches, Len(text) + 1
\* when there is none
RECURSIVE NextMatch(_, _)
NextMatch(text, p) ==
    IF p > Len(text) THEN p
    ELSE IF MatchAt(text, p).typ # "none" THEN p
    ELSE NextMatch(text, p + 1)

LexPieces == {OpenTag, CloseTag, <<"a">>, <<"\n">>, <<"<">>}

RECURSIVE LexInputs(_)
LexInputs(n) ==
    IF n = 0 THEN {<<>>}
    ELSE LexInputs(n - 1) \cup {s \o q : s \in LexInputs(n - 1), q \in LexPieces}

LexInit ==
    /\ md_text \in LexInputs(MaxPieces)
    /\ lex_pos = 1
    /\ lex_tokens = <<>>
    /\ DriverInit /\ ClsIdle /\ WcIdle /\ FitIdle

\* T.tokenize(md_text) yields its next token
LexStep ==
    /\ NextMatch(md_text, lex_pos) <= Len(md_text)
    /\ LET tok == MatchAt(md_text, NextMatch(md_text, lex_pos))
       IN  /\ lex_tokens' = Append(lex_tokens, tok)
           /\ lex_pos' = NextMatch(md_text, lex_pos) + Len(tok.value)
    /\ UNCHANGED <<md_text, driverVars, clsVars, wcVars, fitVars>>

LexDone == NextMatch(md_text, lex_pos) > Len(md_text)

LexNext == LexStep

SpecLex == LexInit /\ [][LexNext]_vars

-----------------------------------------------------------------------------
\* markdown_table on its own: the Table Classifier

MaxClsRows == 2

LongText == Rep("a", RowLimit)
ClsTexts ==
    {<<>>, <<"a">>, <<"<">>, <<"a", "\n", "b">>, <<" ", "\n">>, LongText,
     Rep("<", 25), Rep("<", 26)}
ClsSpans == {NoAttr, Attr("1"), Attr("2")}
ClsCells == {Cell(t, c, r) : t \in ClsTexts, c \in {NoAttr, Attr("2")}, r \in {NoAttr}}
               \cup {Cell(<<"a">>, c, r) : c \in ClsSpans, r \in ClsSpans}
\* rows of seventeen and of sixteen empty cells
EmptyCells(n) == [i \in 1..n |-> Plain(<<>>)]
ClsRowCells ==
    {<<c>> : c \in ClsCells} \cup {<<c, Plain(<<"a">>)>> : c \in ClsCells}
        \cup {<<Plain(<<"a">>), c>> : c \in ClsCells}
        \cup {EmptyCells(16), EmptyCells(17)}
ClsRows == {BodyRow(cs) : cs \in ClsRowCells} \cup {HeadRow(cs) : cs \in ClsRowCells}

RECURSIVE ClsRowSeqs(_)
ClsRowSeqs(n) ==
    IF n = 0 THEN {<<>>}
    ELSE ClsRowSeqs(n - 1)
           \cup {Append(rs, BodyRow(<<Plain(<<"a">>)>>)) : rs \in ClsRowSeqs(n - 1)}
           \cup {<<r>> : r \in ClsRows}
           \cup {<<BodyRow(<<Plain(<<"a">>)>>), r>> : r \in ClsRows}

ClsInit ==
    /\ cls_table \in {Table(FALSE, <<>>, rs) : rs \in ClsRowSeqs(MaxClsRows)}
    /\ cls_result = NoRendering
    /\ DriverInit /\ LexIdle /\ WcIdle /\ FitIdle

\* table = markdown_table(s) (lines 396-400)
Classify ==
    /\ cls_result = NoRendering
    /\ cls_result' = markdown_table(cls_table)
    /\ UNCHANGED <<cls_table, driverVars, lexVars, wcVars, fitVars>>

ClsNext == Classify

SpecClassify == ClsInit /\ [][ClsNext]_vars

-----------------------------------------------------------------------------
\* write_cells on its own, one cell at a time

MaxGridRows == 2

GridCells ==
    {Plain(<<"a", "b">>),
     Cell(<<"a", "b", "c">>, Attr("2"), NoAttr),
     Cell(<<"a">>, NoAttr, Attr("2")),
     Cell(<<"a", "\n", "b">>, Attr("2"), Attr("2")),
     Cell(<<"a">>, Attr("x"), NoAttr)}
\* a cell three columns wide with a rowspan of zero
ZeroRowspan == Cell(<<"a">>, Attr("3"), Attr("0"))
GridRowCells ==
    {<<>>} \cup {<<c>> : c \in GridCells} \cup {<<c, d>> : c, d \in GridCells}
        \cup {<<ZeroRowspan>>, <<ZeroRowspan, Plain(<<"a", "b">>)>>,
              <<Plain(<<"a", "b">>), ZeroRowspan>>}
GridRows == {BodyRow(cs) : cs \in GridRowCells}

RECURSIVE GridRowSeqs(_)
GridRowSeqs(n) ==
    IF n = 0 THEN {<<>>}
    ELSE GridRowSeqs(n - 1)
           \cup {Append(rs, r) : rs \in GridRowSeqs(n - 1), r \in GridRows}

WcSpecInit ==
    /\ wc_table \in {Table(FALSE, <<>>, rs) : rs \in GridRowSeqs(MaxGridRows)}
    /\ wc_row = 1
    /\ wc_col = 1
    /\ wc = WcInit
    /\ wc_pc = "rows"
    /\ DriverInit /\ LexIdle /\ ClsIdle /\ FitIdle

WcCols == RowCols(wc_table.rows[wc_row])

\* lines 478-486: the next <tr>; a row without cells is skipped
WcRowStart ==
    /\ wc_pc = "rows"
    /\ wc_row <= Len(wc_table.rows)
    /\ IF Len(WcCols) = 0
       THEN /\ wc_row' = wc_row + 1
            /\ UNCHANGED <<wc, wc_col, wc_pc>>
       ELSE /\ wc' = [wc EXCEPT !.x = 0]
            /\ wc_col' = 1
            /\ wc_pc' = "cells"
            /\ UNCHANGED wc_row
    /\ UNCHANGED <<wc_table, driverVars, lexVars, clsVars, fitVars>>

\* lines 487-546: the next cell of the row
WcCell ==
    /\ wc_pc = "cells"
    /\ wc_col <= Len(WcCols)
    /\ wc' = WriteCell(wc, WcCols[wc_col], RowIsHeader(wc_table.rows[wc_row]))
    /\ wc_pc' = IF wc'.raised THEN "raised" ELSE "cells"
    /\ wc_col' = wc_col + 1
    /\ UNCHANGED <<wc_table, wc_row, driverVars, lexVars, clsVars, fitVars>>

\* line 547: the row is finished
WcRowEnd ==
    /\ wc_pc = "cells"
    /\ wc_col > Len(WcCols)
    /\ wc' = EndRow(wc)
    /\ wc_row' = wc_row + 1
    /\ wc_pc' = "rows"
    /\ UNCHANGED <<wc_table, wc_col, driverVars, lexVars, clsVars, fitVars>>

\* lines 549-550: all rows walked
WcReturn ==
    /\ wc_pc = "rows"
    /\ wc_row > Len(wc_table.rows)
    /\ wc_pc' = IF ReturnRaises(wc) THEN "raised" ELSE "done"
    /\ UNCHANGED <<wc_table, wc_row, wc_col, wc, driverVars, lexVars, clsVars, fitVars>>

WcNext == WcRowStart \/ WcCell \/ WcRowEnd \/ WcReturn

SpecCells == WcSpecInit /\ [][WcNext]_vars

-----------------------------------------------------------------------------
\* fit_columns on its own, one pass of the while loop at a time

MaxFitCols == 3

FitWidths == {FracOfInt(0), FracOfInt(10), Frac[3, 2], FracOfInt(95),
              FracOfInt(100), FracOfInt(140)}

RECURSIVE FitInputs(_)
FitInputs(n) ==
    IF n = 0 THEN {<<>>}
    ELSE FitInputs(n - 1) \cup {Append(cw, w) : cw \in FitInputs(n - 1), w \in FitWidths}

FitInit ==
    /\ fit_in = <<>>
    /\ colwidth = <<>>
    /\ colsum = FracOfInt(0)
    /\ fit_iter = 0
    /\ fit_prev = <<>>
    /\ set_column = <<>>
    /\ fit_pc = "call"
    /\ DriverInit /\ LexIdle /\ ClsIdle /\ WcIdle

\* fit_columns(sheet, colwidth) is called; line 434
FitCall ==
    /\ fit_pc = "call"
    /\ \E cw \in FitInputs(MaxFitCols) :
           /\ fit_in' = cw
           /\ colwidth' = cw
           /\ fit_prev' = cw
    /\ colsum' = FracOfInt(ColsumStart)
    /\ fit_pc' = "loop"
    /\ UNCHANGED <<fit_iter, set_column, driverVars, lexVars, clsVars, wcVars>>

\* lines 435-449: one pass of the loop body
FitIter ==
    /\ fit_pc = "loop"
    /\ LoopRuns(colsum)
    /\ fit_prev' = colwidth
    /\ colwidth' = Shrink(colwidth)
    /\ colsum' = ColSum(colwidth', 1)
    /\ fit_iter' = fit_iter + 1
    /\ UNCHANGED <<fit_in, set_column, fit_pc, driverVars, lexVars, clsVars, wcVars>>

\* lines 451-454: the loop is left and the widths are applied
FitApply ==
    /\ fit_pc = "loop"
    /\ ~LoopRuns(colsum)
    /\ set_column' = Slack(colwidth)
    /\ fit_pc' = "done"
    /\ UNCHANGED <<fit_in, colwidth, colsum, fit_iter, fit_prev, driverVars, lexVars,
                   clsVars, wcVars>>

FitNext == FitCall \/ FitIter \/ FitApply

SpecFit == FitInit /\ [][FitNext]_vars

\* the loop is a sequential program: a pass that can run does run
SpecFitFair == SpecFit /\ WF_vars(FitIter \/ FitApply)

-----------------------------------------------------------------------------
\* Properties

\* C1 (SpecNamer): the worksheet names html2table chooses for captioned
\* Complex tables are pairwise distinct ignoring case, and each is at most
\* 31 characters long, whatever the number of collisions on one base name.
C1_NamesDistinctAndShort ==
    \A i \in 1..Len(chosen) :
        /\ Len(chosen[i]) <= SheetNameMax
        /\ \A j \in 1..Len(chosen) : i # j => Lower(chosen[i]) # Lower(chosen[j])

\* the span of a cell as write_cells reads it (lines 513-514)
SpanOf(attr) == IF attr = NoAttr THEN 1 ELSE IntOf[attr[1]]
SpansAtLeastOne(s) ==
    \A i \in 1..Len(s.rows) : \A k \in 1..Len(RowCols(s.rows[i])) :
        LET data == RowCols(s.rows[i])[k]
        IN  /\ data.colspan # NoAttr => ~IntRaises(data.colspan[1])
            /\ data.rowspan # NoAttr => ~IntRaises(data.rowspan[1])
            /\ SpanOf(data.colspan) >= 1
            /\ SpanOf(data.rowspan) >= 1

InRange(m, c) == m.x1 <= c[1] /\ c[1] <= m.x2 /\ m.y1 <= c[2] /\ c[2] <= m.y2
\* how often the coordinate c is covered: by a sheet.write at it, or by
\* lying inside the rectangle of a merge_range
Coverage(st, c) ==
    Cardinality({i \in 1..Len(st.writes) : <<st.writes[i].x, st.writes[i].y>> = c})
      + Cardinality({i \in 1..Len(st.merges) : InRange(st.merges[i], c)})
Touched(st) ==
    {<<st.writes[i].x, st.writes[i].y>> : i \in 1..Len(st.writes)}
      \cup UNION {{<<x, y>> : x \in st.merges[i].x1..st.merges[i].x2,
                              y \in st.merges[i].y1..st.merges[i].y2} :
                  i \in 1..Len(st.merges)}
WrittenAt(st) == {<<st.writes[i].x, st.writes[i].y>> : i \in 1..Len(st.writes)}
CornerAt(st) == {<<st.merges[i].x1, st.merges[i].y1>> : i \in 1..Len(st.merges)}

ClaimedComplex(s) ==
    \E i \in 1..Len(s.rows) :
        \/ \E k \in 1..Len(RowCols(s.rows[i])) :
               LET data == RowCols(s.rows[i])[k]
               IN  \/ SpanOf(data.rowspan) + SpanOf(data.colspan) > 2
                   \/ HasNewline(Strip(data.text))
        \/ Len(Concat([k \in 1..Len(RowCols(s.rows[i])) |->
                          Strip(RowCols(s.rows[i])[k].text)])) > RowLimit

\* C3 (SpecClassify): html2table takes the spreadsheet path exactly when
\* some cell has row_span + column_span > 2, or some trimmed cell text holds
\* a newline, or some row's concatenated cell text is longer than 100
\* characters; otherwise it returns the Inline rendering.
C3_ClassifierRule ==
    cls_result # NoRendering
    => /\ (cls_result.kind = "Excel") <=> ClaimedComplex(cls_table)
       /\ (cls_result.kind = "Inline") <=> ~ClaimedComplex(cls_table)

\* sum(colwidth) <= 190
WithinBudget(cw) == ~FracGt[ColSum(cw, 1), FracOfInt(WidthBudget)]

\* C4 (SpecFit): when the widths passed to fit_columns already sum to at
\* most 190, no shrink step is applied: the widths used are the input
\* widths, and each column is set to its input width plus one.
C4_SmallTablesUnchanged ==
    (fit_pc = "done" /\ WithinBudget(fit_in))
    => /\ fit_iter = 0
       /\ colwidth = fit_in
       /\ set_column = Slack(fit_in)

PositiveMax(cw) == FracGt[MaxCol(cw, 1, FracOfInt(0)), FracOfInt(0)]

\* every pass that ran never increased a column and, when the maximum was
\* positive, reduced at least one column to 70% of its value
PassShrinks ==
    fit_iter > 0
    => /\ Len(colwidth) = Len(fit_prev)
       /\ \A i \in 1..Len(colwidth) : FracGeq[fit_prev[i], colwidth[i]]
       /\ PositiveMax(fit_prev)
          => \E i \in 1..Len(colwidth) :
                 /\ colwidth[i] = FracMul[fit_prev[i], SevenTenths]
                 /\ FracGt[fit_prev[i], colwidth[i]]

IsComplexToken(t) == t.typ = "HTML_TABLE" /\ markdown_table(t.table).kind = "Excel"

\* C6 (Spec): a Workbook is created only when the first table classified
\* Complex is reached; with no table, or only Inline tables, none is created.
C6_LazyWorkbook ==
    (pc \in {"run", "done"} /\ wb_created > 0) => \E i \in 1..Len(toks) : IsComplexToken(toks[i])

\* C7 (Spec): when tablefix ends, normally or by an error raised while a
\* table token is handled, every Workbook created has been closed exactly
\* once and none is left open.
C7_ClosedOnEveryExit ==
    pc \in {"done", "raised"} => (wb_closed = wb_created /\ wb # "open")

\* C8 (Spec): the set of used names consulted by the Sheet Namer holds the
\* lowercase short name of every worksheet of the Workbook, so that all
\* short names stay pairwise distinct.
C8_UsedNamesCoverSheets == LowerSheetNames(sheets) \subseteq used_sheet_names

TokenValues == [i \in 1..Len(lex_tokens) |-> lex_tokens[i].value]

EmbedsUpTo(i) == Cardinality({j \in 1..i : output_text[j].kind = "embed"})

\* C10 (Spec): the output is one segment per token in token order: a TEXT
\* token's value verbatim, a table token's Inline rendering or one embed
\* directive; the k-th embed directive names the worksheet created for the
\* k-th Complex table, and the Workbook holds one worksheet per Complex
\* table, in document order.
C10_Reassembly ==
    pc \in {"run", "done"}
    => /\ Len(output_text) = Len(toks)
       /\ Len(sheets) = EmbedsUpTo(Len(output_text))
       /\ \A i \in 1..Len(toks) :
            IF toks[i].typ = "TEXT" THEN output_text[i] = TextSegment(toks[i].value)
            ELSE IF IsComplexToken(toks[i])
            THEN /\ output_text[i].kind = "embed"
                 /\ EmbedsUpTo(i) <= Len(sheets)
                 /\ output_text[i].sheetname = sheets[EmbedsUpTo(i)].name
                 /\ sheets[EmbedsUpTo(i)].merges = write_cells(toks[i].table).merges
                 /\ toks[i].table.has_caption
                    => sheets[EmbedsUpTo(i)].full_name = Strip(toks[i].table.caption)
            ELSE output_text[i] = InlineSegment(markdown_table(toks[i].table))

\* C10 witness: a finished document of a Complex table, a text run and a
\* second Complex table whose worksheet has another name.
C10_Witness ==
    /\ pc = "done"
    /\ Len(toks) = 3
    /\ output_text[1].kind = "embed"
    /\ output_text[2].kind = "text"
    /\ output_text[3].kind = "embed"
    /\ output_text[1].sheetname # output_text[3].sheetname
    /\ output_text[3].sheetname # output_text[3].caption

\* the smallest column >= lo whose coordinate in row y is not in skip
FirstFree(lo, y, skip) ==
    CHOOSE k \in lo..(lo + Cardinality(skip)) :
        /\ <<k, y>> \notin skip
        /\ \A j \in lo..(k - 1) : <<j, y>> \in skip

\* a step of the walk that places the cell after another cell of its row
PlacesNextCell ==
    /\ wc_pc = "cells"
    /\ wc_col > 1
    /\ Len(wc'.cells) = Len(wc.cells) + 1

\* C11 (SpecCells): when a cell placed at column x with column_span c >= 1
\* and row_span >= 1 is followed by another cell of its row, that cell is
\* placed at the smallest column >= x + c whose coordinate in the row is not
\* in skip_merged, whether the first cell was merged or written singly.
C11_CursorAdvance ==
    [][PlacesNextCell
       => LET p == wc.cells[Len(wc.cells)]
              q == wc'.cells[Len(wc'.cells)]
          IN  (p.colspan >= 1 /\ p.rowspan >= 1)
              => /\ q.y = p.y
                 /\ q.x >= p.x + p.colspan
                 /\ q.x = FirstFree(p.x + p.colspan, p.y, wc.skip_merged)]_vars

\* C11 witness: a finished walk in which a singly written cell at column x
\* is followed, in its row, by a cell placed beyond x + 1 because the
\* coordinate in between was swallowed by a merge range of the row above.
C11_Witness ==
    /\ wc_pc = "done"
    /\ \E i \in 1..(Len(wc.cells) - 1) :
           /\ wc.cells[i].y = wc.cells[i + 1].y
           /\ wc.cells[i].colspan = 1 /\ wc.cells[i].rowspan = 1
           /\ wc.cells[i + 1].x > wc.cells[i].x + 1
           /\ <<wc.cells[i].x + 1, wc.cells[i].y>> \in wc.skip_merged

\* a step of the walk that places a cell
PlacesCell == wc_pc = "cells" /\ Len(wc'.cells) = Len(wc.cells) + 1

\* the coordinates of the rectangle (x, y)..(x + colspan - 1, y + rowspan - 1)
Rectangle(q) ==
    {<<i, j>> : i \in q.x..(q.x + q.colspan - 1), j \in q.y..(q.y + q.rowspan - 1)}

\* the step registers the merge range of the cell q and nothing else
RegistersMerge(q) ==
    /\ Len(wc'.merges) = Len(wc.merges) + 1
    /\ SubSeq(wc'.merges, 1, Len(wc.merges)) = wc.merges
    /\ LET m == wc'.merges[Len(wc'.merges)]
       IN  /\ m.x1 = q.x /\ m.y1 = q.y
           /\ m.x2 = q.x + q.colspan - 1
           /\ m.y2 = q.y + q.rowspan - 1
    /\ wc'.skip_merged = wc.skip_merged \cup (Rectangle(q) \ {<<q.x, q.y>>})
    /\ wc'.writes = wc.writes

\* the step writes the single cell q and nothing else
WritesSingle(q) ==
    /\ Len(wc'.writes) = Len(wc.writes) + 1
    /\ SubSeq(wc'.writes, 1, Len(wc.writes)) = wc.writes
    /\ wc'.writes[Len(wc'.writes)].x = q.x
    /\ wc'.writes[Len(wc'.writes)].y = q.y
    /\ wc'.merges = wc.merges
    /\ wc'.skip_merged = wc.skip_merged

\* C12 as claimed (SpecCells): a cell is registered as a merge range, its
\* covered coordinates but the top-left added to skip_merged, exactly when
\* row_span * column_span > 2; every other cell, a 1x2 or 2x1 cell included,
\* is written as a single cell and adds nothing to skip_merged.
C12_MergeWhenProductOverTwo ==
    [][PlacesCell
       => LET q == wc'.cells[Len(wc'.cells)]
          IN  IF q.rowspan * q.colspan > 2 THEN RegistersMerge(q)
              ELSE WritesSingle(q)]_vars

\* C12 as amended (SpecCells): a cell is registered as a merge range, its
\* covered coordinates but the top-left added to skip_merged, exactly when
\* column_span + row_span > 2; every other cell is written as a single cell
\* and adds nothing to skip_merged.
C12_MergeWhenSumOverTwo ==
    [][PlacesCell
       => LET q == wc'.cells[Len(wc'.cells)]
          IN  IF q.colspan + q.rowspan > 2 THEN RegistersMerge(q)
              ELSE WritesSingle(q)]_vars

\* C12 witness: a finished walk with a merge range of exactly two grid
\* positions whose second position is in skip_merged, a merge range of four,
\* and a cell written singly.
C12_Witness ==
    /\ wc_pc = "done"
    /\ \E i \in 1..Len(wc.merges) :
           /\ wc.merges[i].x2 = wc.merges[i].x1 + 1
           /\ wc.merges[i].y2 = wc.merges[i].y1
           /\ <<wc.merges[i].x2, wc.merges[i].y1>> \in wc.skip_merged
    /\ \E i \in 1..Len(wc.merges) :
           /\ wc.merges[i].x2 = wc.merges[i].x1 + 1
           /\ wc.merges[i].y2 = wc.merges[i].y1 + 1
    /\ Len(wc.writes) > 0

\* a span attribute with a value that is no integer >= 1 replaced by "1"
DefaultedSpan(attr) ==
    IF attr = NoAttr THEN attr
    ELSE IF IntRaises(attr[1]) THEN Attr("1")
    ELSE IF IntOf[attr[1]] < 1 THEN Attr("1")
    ELSE attr

DefaultedCells(cols) ==
    [k \in 1..Len(cols) |->
        Cell(cols[k].text, DefaultedSpan(cols[k].colspan),
             DefaultedSpan(cols[k].rowspan))]

\* the table s with every malformed span read as 1
SpansDefaulted(s) ==
    [s EXCEPT !.rows = [i \in 1..Len(s.rows) |->
                           [td |-> DefaultedCells(s.rows[i].td),
                            th |-> DefaultedCells(s.rows[i].th)]]]

\* C13 (Spec): for every table token handled, markdown_table raises no error
\* and classifies and renders the table as it does the table with every
\* malformed span (no integer, empty, zero, negative) read as 1; and when
\* that is the spreadsheet path, write_cells raises no error and makes the
\* same sheet.write and sheet.merge_range calls as for that table.
C13_MalformedSpansDefaultToOne ==
    \A i \in 1..Len(toks) :
        toks[i].typ = "HTML_TABLE"
        => LET s == toks[i].table
               d == SpansDefaulted(s)
           IN  /\ markdown_table(s).kind # "ValueError"
               /\ markdown_table(s) = markdown_table(d)
               /\ markdown_table(d).kind = "Excel"
                  => /\ ~write_cells(s).raised
                     /\ write_cells(s).writes = write_cells(d).writes
                     /\ write_cells(s).merges = write_cells(d).merges
                     /\ write_cells(s).skip_merged = write_cells(d).skip_merged

====
